---------------------------- MODULE Spec2Model ----------------------------
(***************************************************************************)
(* A model of the grid bot of src/bot.py and its order ledger               *)
(* src/order_storage.py.                                                    *)
(*                                                                          *)
(* Floats are fixed-point decimals with three decimal places: the number x *)
(* is the integer x * Scale.  Every value the model meets (prices that are  *)
(* whole units, percentages in tenths) is exact in that representation.     *)
(*                                                                          *)
(* Spec        the process: main() with its poll loop, the exchange, the    *)
(*             user at the prompt, crashes, interrupts and restarts.        *)
(* SpecLedger  the three ledger operations applied to arbitrary ledgers     *)
(*             and arbitrary order lists.                                   *)
(***************************************************************************)
EXTENDS Integers, Sequences, FiniteSets, TLC

VARIABLES
    settings,          \* main: settings = load_settings()
    active_symbols,    \* main: the list of active symbols
    pc,                \* where the process is
    sym_idx,           \* main: position of `for symbol in active_symbols'
    current_price,     \* main: current_price
    open_orders,       \* main: open_orders (the argument of save_or_update_orders)
    existing_orders,   \* main: the rows of existing_orders not yet iterated
    open_order_ids,    \* main: open_order_ids
    order,             \* main: the loop variable of `for order in existing_orders'
    eng,               \* place_opposite_order: its locals and what it did so far
    ledger,            \* the rows of table `orders' of orders.db
    now,               \* int(time.time())
    fetch_error,       \* history: whether the last get_open_orders failed
    last_call,         \* history: the order id and the outcome of the last
                       \* create_order call since the process started
    was_open,          \* history: ids OPEN for the symbol when the fetch was made
    fill_events,       \* history: Pricing Engine invocations per id, this symbol step
    mark_calls,        \* history: mark_order_filled calls per id, this symbol step
    filled_absent,     \* history: ids marked FILLED and not reported live since
    first_cycle,       \* history: the process was started over an existing
                       \* orders.db and is in its first poll cycle
    api_call           \* SpecLedger: the last ledger operation and its arguments

vars == << settings, active_symbols, pc, sym_idx, current_price, open_orders,
           existing_orders, open_order_ids, order, eng, ledger, now,
           fetch_error, last_call, was_open, fill_events, mark_calls,
           filled_absent, first_cycle, api_call >>

-----------------------------------------------------------------------------
(* Bounds of the model.                                                     *)

\* how many of the exchange's orders exist
MaxOrders == 3
\* how many seconds the clock advances between the calls of SpecLedger
MaxTime == 1
\* how many candles the exchange holds
MaxKlines == 2
\* how many entries an order list given to the ledger has (SpecLedger)
MaxListLen == 2
\* where the history counters stop counting
MaxCount == 2

-----------------------------------------------------------------------------
(* Numbers.                                                                 *)

\* the fixed-point scale: 1.0 is 1000
Scale == 1000

\* Python's None, and a value that may be None: << >> or << x >>
None == << >>
Some(x) == << x >>

Min(a, b) == IF a < b THEN a ELSE b

\* a * b of two fixed-point numbers
Mul(a, b) == (a * b) \div Scale

\* x / 100 of a fixed-point number (fee_percent / 100, profit_percent / 100)
Div100(x) == x \div 100

\* 10 ** n
RECURSIVE Pow10(_)
Pow10(n) == IF n = 0 THEN 1 ELSE 10 * Pow10(n - 1)

\* float(s) of the decimal strings the exchange sends
float(s) ==
    CASE s = "100.00000000" -> 100 * Scale
      [] s = "103.00000000" -> 103 * Scale
      [] s = "104.00000000" -> 104 * Scale
      [] s = "1.00000000"   -> 1 * Scale
      [] s = "2.00000000"   -> 2 * Scale

\* f"{price:.{precision}f}": the decimal with `precision' places nearest to
\* price, a tie going to the even one; the string is held as its digits
\* (the number times 10 ** precision) and its precision.
FormatFixed(price, precision) ==
    LET step == Pow10(3 - precision)
        q    == price \div step
        r    == price % step
        up   == (2 * r > step) \/ (2 * r = step /\ q % 2 = 1)
    IN  [digits |-> IF up THEN q + 1 ELSE q, precision |-> precision]

\* the number a formatted price denotes, as the exchange reads it
ParseFixed(str) == str.digits * Pow10(3 - str.precision)

\* dict.get(key, default)
Get(d, key, default) == IF key \in DOMAIN d THEN d[key] ELSE default

-----------------------------------------------------------------------------
(* The exchange.                                                            *)

Symbols == {"A", "B"}

SIDE_BUY == "BUY"
SIDE_SELL == "SELL"

\* the orders of the account on the exchange, as get_open_orders reports them
ExchangeOrders == <<
    [orderId |-> 1, symbol |-> "A", side |-> SIDE_BUY,
     price |-> "100.00000000", origQty |-> "1.00000000"],
    [orderId |-> 2, symbol |-> "A", side |-> SIDE_SELL,
     price |-> "100.00000000", origQty |-> "1.00000000"],
    [orderId |-> 3, symbol |-> "B", side |-> SIDE_SELL,
     price |-> "103.00000000", origQty |-> "1.00000000"],
    [orderId |-> 4, symbol |-> "B", side |-> SIDE_BUY,
     price |-> "100.00000000", origQty |-> "1.00000000"] >>

OrderIds == 1 .. Min(MaxOrders, Len(ExchangeOrders))

\* the ids of the exchange's orders of one symbol
IdsOf(symbol) == {id \in OrderIds : ExchangeOrders[id].symbol = symbol}

\* a set of order ids as the list the exchange returns, ascending
RECURSIVE LiveList(_)
LiveList(ids) ==
    IF ids = {} THEN << >>
    ELSE LET lo == CHOOSE x \in ids : \A y \in ids : x <= y
         IN  << ExchangeOrders[lo] >> \o LiveList(ids \ {lo})

\* the ids of an order list
ListIds(order_list) ==
    {order_list[k].orderId : k \in 1 .. Len(order_list)}

\* get_open_orders returning what the exchange holds, error or not
get_open_orders_ignores_error(failed, ids) == LiveList(ids)

\* get_open_orders(client, symbol): the exchange's open orders of the symbol,
\* ids, or [] when client.get_open_orders raises BinanceAPIException
get_open_orders(failed, ids) == IF failed THEN << >> ELSE LiveList(ids)

\* the closing prices a candle can have
KlineCloses == {"100.00000000", "104.00000000"}

\* a candle: open time, open, high, low, close
Kline(close) == << 0, close, close, close, close >>

\* the lists of candles get_klines(limit=minutes) can return
KlineLists(minutes) ==
    UNION {[1 .. n -> {Kline(c) : c \in KlineCloses}] :
              n \in 0 .. Min(minutes, MaxKlines)}

\* the prices get_symbol_ticker can report
TickerPrices == {"100.00000000"}

-----------------------------------------------------------------------------
(* The ledger: src/order_storage.py.                                        *)

\* Order(order_id=o['orderId'], ..., status='OPEN', created_at=int(time.time()))
Order(o, t) ==
    [order_id   |-> o.orderId,
     symbol     |-> o.symbol,
     side       |-> o.side,
     price      |-> float(o.price),
     volume     |-> float(o.origQty),
     status     |-> "OPEN",
     created_at |-> t]

\* session.query(Order).filter_by(order_id=id)
RowsWithId(led, id) == {r \in led : r.order_id = id}

\* .first() of a query that has a result (`if order:' tests rows # {})
first(rows) == CHOOSE r \in rows : TRUE

\* the body of the loop of save_or_update_orders, with every row inserted anew
upsert_one_always_insert(led, o, t) == led \cup {Order(o, t)}

\* the body of the loop of save_or_update_orders writing the live order's
\* fields over the row it finds
upsert_one_refresh(led, o, t) ==
    (led \ RowsWithId(led, o.orderId)) \cup {Order(o, t)}

\* the body of the loop of save_or_update_orders for one live order o
upsert_one(led, o, t) ==
    LET rows == RowsWithId(led, o.orderId)
        row  == first(rows)
    IN  IF rows # {}
        THEN (led \ {row}) \cup {[row EXCEPT !.status = "OPEN"]}
        ELSE led \cup {Order(o, t)}

\* save_or_update_orders(order_list) at time t: the table after the commit
RECURSIVE save_or_update_orders(_, _, _)
save_or_update_orders(led, order_list, t) ==
    IF order_list = << >> THEN led
    ELSE save_or_update_orders(upsert_one(led, Head(order_list), t),
                               Tail(order_list), t)

\* get_filled_orders without the filter on the status
get_filled_orders_any_status(led, symbols) ==
    {r \in led : r.symbol \in symbols}

\* get_filled_orders without the filter on the symbol
get_filled_orders_all_symbols(led, symbols) ==
    {r \in led : r.status = "OPEN"}

\* get_filled_orders(active_symbols): the rows that are OPEN, of these symbols
get_filled_orders(led, symbols) ==
    {r \in led : r.status = "OPEN" /\ r.symbol \in symbols}

\* mark_order_filled that marks nothing
mark_order_filled_noop(led, id) == led

\* mark_order_filled(order_id): the table after it
mark_order_filled(led, id) ==
    LET rows == RowsWithId(led, id)
        row  == first(rows)
    IN  IF rows # {}
        THEN (led \ {row}) \cup {[row EXCEPT !.status = "FILLED"]}
        ELSE led

\* orders.db opened by a process that keeps its table in memory
Reopened_InMemory(led) == {}

\* lines 17-19 run by a new process: the engine opens the file orders.db and
\* create_all creates the table only if it is not there; the rows are kept
Reopened(led) == led

\* the statuses of the ledger's rows of an id
StatusesOf(led, id) == {r.status : r \in RowsWithId(led, id)}

-----------------------------------------------------------------------------
(* settings.json.                                                           *)

\* a symbol's mandatory keys; the optional ones are added with @@
SymbolConfig(active, profit, lo, hi) ==
    [is_active      |-> active,
     profit_percent |-> profit,
     volume_buy     |-> 1 * Scale,
     volume_sell    |-> 2 * Scale,
     price_min      |-> lo,
     price_max      |-> hi]

Wide(active, profit) == SymbolConfig(active, profit, 50 * Scale, 150 * Scale)

Adaptive(percent, minutes) ==
    [adaptive_limit_percent |-> percent, moving_average_period_min |-> minutes]

OnePercent == 1 * Scale
FeeTenth == Scale \div 10

\* the settings files the bot is started with
SettingsSet == {
    \* the defaults: confirmation asked, two decimals; A: price_max 101;
    \* B with the adaptive guard
    [global  |-> [fee_percent |-> FeeTenth],
     symbols |-> [A |-> SymbolConfig(TRUE, OnePercent, 50 * Scale, 101 * Scale),
                  B |-> Wide(TRUE, OnePercent) @@ Adaptive(2 * Scale, 2)]],
    \* no margin at all on B, adaptive guard on, no confirmation
    [global  |-> [fee_percent |-> 0, confirm_order |-> FALSE],
     symbols |-> [A |-> Wide(TRUE, OnePercent) @@ Adaptive(2 * Scale, 2),
                  B |-> Wide(TRUE, 0) @@ Adaptive(2 * Scale, 2)]],
    \* A: price_min 99, whole prices; B not active
    [global  |-> [fee_percent |-> FeeTenth, confirm_order |-> FALSE],
     symbols |-> [A |-> SymbolConfig(TRUE, OnePercent, 99 * Scale, 150 * Scale)
                           @@ [price_precision |-> 0],
                  B |-> Wide(FALSE, OnePercent)]],
    \* A: price_max 98.9, whole prices; B with half of the adaptive guard
    [global  |-> [fee_percent |-> FeeTenth, confirm_order |-> FALSE],
     symbols |-> [A |-> SymbolConfig(TRUE, OnePercent, 50 * Scale, 98900)
                           @@ [price_precision |-> 0],
                  B |-> Wide(TRUE, OnePercent) @@ Adaptive(2 * Scale, 0)]],
    \* A: price_min 102; confirmation asked; B with the other half
    [global  |-> [fee_percent |-> FeeTenth, confirm_order |-> TRUE],
     symbols |-> [A |-> SymbolConfig(TRUE, OnePercent, 102 * Scale, 150 * Scale),
                  B |-> Wide(TRUE, OnePercent) @@ Adaptive(0, 2)]],
    \* A not active (no is_active key), B: price_max 98
    [global  |-> [fee_percent |-> FeeTenth, confirm_order |-> FALSE],
     symbols |-> [A |-> [profit_percent |-> OnePercent],
                  B |-> SymbolConfig(TRUE, OnePercent, 50 * Scale, 98 * Scale)]],
    \* no margin at all, B with the adaptive guard at 3 %
    [global  |-> [fee_percent |-> 0, confirm_order |-> FALSE],
     symbols |-> [A |-> Wide(TRUE, 0),
                  B |-> Wide(TRUE, 0) @@ Adaptive(3 * Scale, 2)]],
    \* nothing active
    [global  |-> [fee_percent |-> FeeTenth],
     symbols |-> [A |-> Wide(FALSE, OnePercent), B |-> Wide(FALSE, OnePercent)]] }

\* [s for s, cfg in symbols_config.items() if cfg.get('is_active')]
RECURSIVE ActiveList(_, _)
ActiveList(symbols_config, names) ==
    IF names = << >> THEN << >>
    ELSE (IF Get(symbols_config[Head(names)], "is_active", FALSE)
          THEN << Head(names) >> ELSE << >>)
         \o ActiveList(symbols_config, Tail(names))

\* the keys of settings['symbols'], in the order of the file
SymbolNames == << "A", "B" >>

-----------------------------------------------------------------------------
(* The Pricing Engine: place_opposite_order of src/bot.py.                  *)

ORDER_TYPE_LIMIT == "LIMIT"
TIME_IN_FORCE_GTC == "GTC"

\* fee = settings['global']['fee_percent'] / 100
FeeOf(s) == Div100(s.global.fee_percent)

\* profit = symbol_config['profit_percent'] / 100
ProfitOf(cfg) == Div100(cfg.profit_percent)

\* confirm = settings['global'].get('confirm_order', True)
ConfirmOf(s) == Get(s.global, "confirm_order", TRUE)

\* price_precision = symbol_config.get('price_precision', 2)
PrecisionOf(cfg) == Get(cfg, "price_precision", 2)

\* SellPrice with the fee taken on the price alone, not on price * volume
SellPrice_FeeWithoutVolume(order_price, profit, volume, fee) ==
    order_price + Mul(order_price, profit) + Mul(order_price, fee)

\* the price of the SELL that answers a filled BUY
SellPrice(order_price, profit, volume, fee) ==
    order_price + Mul(order_price, profit) + Mul(Mul(order_price, volume), fee)

\* BuyPrice with the fee added instead of subtracted
BuyPrice_FeeAdded(order_price, profit, volume, fee) ==
    order_price - Mul(order_price, profit) + Mul(Mul(order_price, volume), fee)

\* the price of the BUY that answers a filled SELL
BuyPrice(order_price, profit, volume, fee) ==
    order_price - Mul(order_price, profit) - Mul(Mul(order_price, volume), fee)

\* side, volume and price of the opposite order
Opposite(original_order, s, cfg) ==
    IF original_order.side = SIDE_BUY
    THEN [side   |-> SIDE_SELL,
          volume |-> cfg.volume_sell,
          price  |-> SellPrice(original_order.price, ProfitOf(cfg),
                               cfg.volume_sell, FeeOf(s))]
    ELSE [side   |-> SIDE_BUY,
          volume |-> cfg.volume_buy,
          price  |-> BuyPrice(original_order.price, ProfitOf(cfg),
                              cfg.volume_buy, FeeOf(s))]

\* SellBoundsSkip with the upper bound checked as well
SellBoundsSkip_ChecksMax(price, price_min, price_max) ==
    IF price < price_min THEN "below price_min"
    ELSE IF price > price_max THEN "above price_max"
    ELSE ""

\* the bound checks of the SELL side: "" goes on, anything else is the skip
SellBoundsSkip(price, price_min, price_max) ==
    IF price < price_min THEN "below price_min" ELSE ""

\* BuyBoundsSkip comparing the price as shown in whole units
BuyBoundsSkip_Formatted(price, price_min, price_max) ==
    LET shown == ParseFixed(FormatFixed(price, 0))
    IN  IF shown < price_min THEN "below price_min"
        ELSE IF shown > price_max THEN "above price_max"
        ELSE ""

\* the bound checks of the BUY side
BuyBoundsSkip(price, price_min, price_max) ==
    IF price < price_min THEN "below price_min"
    ELSE IF price > price_max THEN "above price_max"
    ELSE ""

BoundsSkip(side, price, cfg) ==
    IF side = SIDE_SELL
    THEN SellBoundsSkip(price, cfg.price_min, cfg.price_max)
    ELSE BuyBoundsSkip(price, cfg.price_min, cfg.price_max)

\* AdaptiveEnabled with `or' for `and'
AdaptiveEnabled_Either(cfg) ==
    \/ Get(cfg, "adaptive_limit_percent", 0) > 0
    \/ Get(cfg, "moving_average_period_min", 0) > 0

\* adaptive_percent > 0 and ma_period > 0
AdaptiveEnabled(cfg) ==
    /\ Get(cfg, "adaptive_limit_percent", 0) > 0
    /\ Get(cfg, "moving_average_period_min", 0) > 0

\* whether place_opposite_order reaches the call of get_moving_average
FetchesKlines(side, price, cfg) ==
    /\ side = SIDE_BUY
    /\ BoundsSkip(side, price, cfg) = ""
    /\ AdaptiveEnabled(cfg)

\* what client.get_klines answers: an error, or candles
KlineResponses(minutes) ==
    {[error |-> TRUE, klines |-> << >>]}
        \cup {[error |-> FALSE, klines |-> k] : k \in KlineLists(minutes)}

RECURSIVE SumCloses(_)
SumCloses(klines) ==
    IF klines = << >> THEN 0
    ELSE float(Head(klines)[5]) + SumCloses(Tail(klines))

\* get_moving_average: None when it raises (the gateway's error, or no candles)
get_moving_average(response) ==
    IF response.error \/ response.klines = << >> THEN None
    ELSE Some(SumCloses(response.klines) \div Len(response.klines))

\* adaptive_limit = moving_avg * (1 + adaptive_percent / 100)
AdaptiveLimit(moving_avg, adaptive_percent) ==
    Mul(moving_avg, Scale + Div100(adaptive_percent))

\* the adaptive check without the `except Exception' branch's return
AdaptiveSkip_IgnoresFailure(price, moving_avg, adaptive_percent) ==
    IF moving_avg # None /\ price > AdaptiveLimit(moving_avg[1], adaptive_percent)
    THEN "above adaptive limit"
    ELSE ""

\* the adaptive check: "" goes on, anything else is the skip
AdaptiveSkip(price, moving_avg, adaptive_percent) ==
    IF moving_avg = None THEN "moving average failed"
    ELSE IF price > AdaptiveLimit(moving_avg[1], adaptive_percent)
         THEN "above adaptive limit"
         ELSE ""

\* place_opposite_order before it is called
EngIdle ==
    [side |-> "", volume |-> 0, price |-> 0, price_str |-> None,
     outcome |-> "IDLE", reason |-> "", klines_fetched |-> FALSE,
     moving_avg |-> None, prompted |-> FALSE, user_input |-> None,
     create_order |-> None]

\* place_opposite_order up to `Ready to place': the opposite order and the
\* guards; response is the answer of get_klines, read only when it is called
Evaluated(original_order, s, cfg, response) ==
    LET opp     == Opposite(original_order, s, cfg)
        bounds  == BoundsSkip(opp.side, opp.price, cfg)
        fetches == FetchesKlines(opp.side, opp.price, cfg)
        avg     == IF fetches THEN get_moving_average(response) ELSE None
        reason  == IF bounds # "" THEN bounds
                   ELSE IF fetches
                        THEN AdaptiveSkip(opp.price, avg,
                                          cfg.adaptive_limit_percent)
                        ELSE ""
    IN  [side           |-> opp.side,
         volume         |-> opp.volume,
         price          |-> opp.price,
         price_str      |-> IF reason = ""
                            THEN Some(FormatFixed(opp.price, PrecisionOf(cfg)))
                            ELSE None,
         outcome        |-> IF reason = "" THEN "READY" ELSE "SKIPPED",
         reason         |-> reason,
         klines_fetched |-> fetches,
         moving_avg     |-> avg,
         prompted       |-> FALSE,
         user_input     |-> None,
         create_order   |-> None]

\* the skips logging and not returning
AfterGuards_NoReturn(outcome, confirm) ==
    IF confirm THEN "confirm" ELSE "create"

\* where place_opposite_order goes after its guards: a skip returns to main
\* (lines 76, 85, 88, 99, 102), anything else goes to the prompt (line 107)
\* or, without confirmation, to create_order (line 113)
AfterGuards(outcome, confirm) ==
    IF outcome = "SKIPPED" THEN "mark"
    ELSE IF confirm THEN "confirm" ELSE "create"

\* input(...).strip().lower() of what the user types
StripLower(typed) ==
    CASE typed = "y"  -> "y"
      [] typed = " Y" -> "y"
      [] typed = "n"  -> "n"
      [] typed = ""   -> ""

\* what the user can type at the prompt
Typed == {"y", " Y", "n", ""}

\* the prompt taking everything but a no for a yes
Affirmative_NotNo(user_input) == user_input # "n"

\* line 109: `if user_input != 'y'' cancels; anything else is the go-ahead
Affirmative(user_input) == user_input = "y"

\* the arguments of client.create_order
CreateOrderArgs(symbol, e) ==
    [symbol      |-> symbol,
     side        |-> e.side,
     type        |-> ORDER_TYPE_LIMIT,
     quantity    |-> e.volume,
     price       |-> e.price_str[1],
     timeInForce |-> TIME_IN_FORCE_GTC]

-----------------------------------------------------------------------------
(* The process: main of src/bot.py.                                         *)

\* the symbol of the running iteration of `for symbol in active_symbols'
Symbol == active_symbols[sym_idx]

\* cfg = symbols_config[symbol]
Cfg == settings.symbols[Symbol]

Count == [id \in OrderIds |-> 0]

Bump(counts, id) == [counts EXCEPT ![id] = Min(MaxCount, @ + 1)]

locals == << current_price, open_orders, existing_orders, open_order_ids,
             order, eng >>

history == << fetch_error, last_call, was_open, fill_events, mark_calls,
              filled_absent, first_cycle, api_call >>

\* no ledger operation has been called through SpecLedger
NoCall == [op |-> "", order_list |-> << >>, order_id |-> 0, symbols |-> {}]

Init ==
    /\ settings \in SettingsSet
    /\ active_symbols = << >>
    /\ pc = "main"
    /\ sym_idx = 1
    /\ current_price = None
    /\ open_orders = << >>
    /\ existing_orders = {}
    /\ open_order_ids = {}
    /\ order = None
    /\ eng = EngIdle
    /\ ledger = {}
    /\ now = 0
    /\ fetch_error = FALSE
    /\ last_call = None
    /\ was_open = {}
    /\ fill_events = Count
    /\ mark_calls = Count
    /\ filled_absent = {}
    /\ first_cycle = FALSE
    /\ api_call = NoCall

\* main, lines 127-141: the active symbols; without any, main returns
Main ==
    /\ pc = "main"
    /\ active_symbols' = ActiveList(settings.symbols, SymbolNames)
    /\ pc' = IF active_symbols' = << >> THEN "exited" ELSE "price"
    /\ sym_idx' = 1
    /\ UNCHANGED << settings, locals, ledger, now, history >>

\* line 145: get_current_price, None when the gateway fails
GetCurrentPrice ==
    /\ pc = "price"
    /\ current_price' \in {None} \cup {Some(float(p)) : p \in TickerPrices}
    /\ pc' = "orders"
    /\ UNCHANGED << settings, active_symbols, sym_idx, open_orders,
                    existing_orders, open_order_ids, order, eng, ledger, now,
                    history >>

\* line 146: get_open_orders, [] when the gateway fails
GetOpenOrders ==
    /\ pc = "orders"
    /\ \E failed \in BOOLEAN, ids \in SUBSET IdsOf(Symbol) :
          /\ fetch_error' = failed
          /\ open_orders' = get_open_orders(failed, ids)
          /\ filled_absent' = filled_absent \ ListIds(open_orders')
    /\ was_open' = {r.order_id : r \in get_filled_orders(ledger, {Symbol})}
    /\ fill_events' = Count
    /\ mark_calls' = Count
    /\ pc' = "save"
    /\ UNCHANGED << settings, active_symbols, sym_idx, current_price,
                    existing_orders, open_order_ids, order, eng, ledger, now,
                    last_call, first_cycle, api_call >>

\* line 147: save_or_update_orders(open_orders)
SaveOrders ==
    /\ pc = "save"
    /\ ledger' = save_or_update_orders(ledger, open_orders, now)
    /\ pc' = "list"
    /\ UNCHANGED << settings, active_symbols, sym_idx, locals, now, history >>

\* lines 148-149: existing_orders and open_order_ids
ListOpen ==
    /\ pc = "list"
    /\ existing_orders' = get_filled_orders(ledger, {Symbol})
    /\ open_order_ids' = {open_orders[k].orderId : k \in 1 .. Len(open_orders)}
    /\ pc' = "fills"
    /\ UNCHANGED << settings, active_symbols, sym_idx, current_price,
                    open_orders, order, eng, ledger, now, history >>

\* lines 151-154: one iteration of `for order in existing_orders', up to the
\* call of place_opposite_order; after the last one, the status line is next
NextOrder ==
    /\ pc = "fills"
    /\ \/ /\ existing_orders = {}
          /\ pc' = "status"
          /\ UNCHANGED << existing_orders, order, eng, fill_events >>
       \/ \E row \in existing_orders :
             /\ existing_orders' = existing_orders \ {row}
             /\ IF row.order_id \notin open_order_ids
                THEN /\ order' = Some(row)
                     /\ eng' = [EngIdle EXCEPT !.outcome = "EVALUATING"]
                     /\ fill_events' = Bump(fill_events, row.order_id)
                     /\ pc' = "evaluating"
                ELSE /\ pc' = "fills"
                     /\ UNCHANGED << order, eng, fill_events >>
    /\ UNCHANGED << settings, active_symbols, sym_idx, current_price,
                    open_orders, open_order_ids, ledger, now, fetch_error,
                    last_call, was_open, mark_calls, filled_absent,
                    first_cycle, api_call >>

\* place_opposite_order, lines 57-105: the opposite order and its guards
Evaluate ==
    /\ pc = "evaluating"
    /\ \E response \in KlineResponses(
                          Get(Cfg, "moving_average_period_min", 0)) :
          eng' = Evaluated(order[1], settings, Cfg, response)
    /\ pc' = AfterGuards(eng'.outcome, ConfirmOf(settings))
    /\ UNCHANGED << settings, active_symbols, sym_idx, current_price,
                    open_orders, existing_orders, open_order_ids, order,
                    ledger, now, history >>

\* place_opposite_order, lines 107-111: the prompt and the user's answer
Confirm ==
    /\ pc = "confirm"
    /\ \E typed \in Typed :
          LET user_input == StripLower(typed)
          IN  IF ~Affirmative(user_input)
              THEN /\ eng' = [eng EXCEPT !.prompted = TRUE,
                                         !.user_input = Some(user_input),
                                         !.outcome = "CANCELLED"]
                   /\ pc' = "mark"
              ELSE /\ eng' = [eng EXCEPT !.prompted = TRUE,
                                         !.user_input = Some(user_input)]
                   /\ pc' = "create"
    /\ UNCHANGED << settings, active_symbols, sym_idx, current_price,
                    open_orders, existing_orders, open_order_ids, order,
                    ledger, now, history >>

\* place_opposite_order, lines 113-124: create_order, its error swallowed;
\* recorded says whether the history of the calls is kept
Place(recorded) ==
    /\ pc = "create"
    /\ \E accepted \in BOOLEAN :
          eng' = [eng EXCEPT
                     !.create_order = Some(CreateOrderArgs(order[1].symbol, eng)),
                     !.outcome = IF accepted THEN "PLACED"
                                 ELSE "PLACEMENT_FAILED"]
    /\ last_call' = IF recorded
                    THEN Some([order_id |-> order[1].order_id,
                               outcome  |-> eng'.outcome])
                    ELSE last_call
    /\ pc' = "mark"
    /\ UNCHANGED << settings, active_symbols, sym_idx, current_price,
                    open_orders, existing_orders, open_order_ids, order,
                    ledger, now, fetch_error, was_open, fill_events,
                    mark_calls, filled_absent, first_cycle, api_call >>

CreateOrder == Place(TRUE)

CreateOrderLive == Place(FALSE)

\* line 155: mark_order_filled(order.order_id)
MarkFilled ==
    /\ pc = "mark"
    /\ ledger' = mark_order_filled(ledger, order[1].order_id)
    /\ mark_calls' = Bump(mark_calls, order[1].order_id)
    /\ filled_absent' = filled_absent \cup {order[1].order_id}
    /\ pc' = "fills"
    /\ UNCHANGED << settings, active_symbols, sym_idx, locals, now,
                    fetch_error, last_call, was_open, fill_events,
                    first_cycle, api_call >>

\* lines 157-167: the status line, which formats current_price with :.4f and
\* raises TypeError on None; then the next symbol, or the sleep
StatusLine ==
    /\ pc = "status"
    /\ IF current_price = None
       THEN /\ pc' = "crashed"
            /\ UNCHANGED << sym_idx, locals, fetch_error, was_open,
                            fill_events, mark_calls >>
       ELSE /\ pc' = IF sym_idx < Len(active_symbols) THEN "price" ELSE "sleep"
            /\ sym_idx' = IF sym_idx < Len(active_symbols) THEN sym_idx + 1 ELSE 1
            /\ current_price' = None
            /\ open_orders' = << >>
            /\ existing_orders' = {}
            /\ open_order_ids' = {}
            /\ order' = None
            /\ eng' = EngIdle
            /\ fetch_error' = FALSE
            /\ was_open' = {}
            /\ fill_events' = Count
            /\ mark_calls' = Count
    /\ UNCHANGED << settings, active_symbols, ledger, now, last_call,
                    filled_absent, first_cycle, api_call >>

\* line 167: time.sleep(poll_interval), then the next cycle.  The bot reads
\* the clock only to stamp created_at and never reads a stamp back, so the
\* stamps of Spec are those of one clock value; SpecLedger moves the clock.
Sleep ==
    /\ pc = "sleep"
    /\ pc' = "price"
    /\ first_cycle' = FALSE
    /\ UNCHANGED << settings, active_symbols, sym_idx, locals, ledger, now,
                    fetch_error, last_call, was_open, fill_events,
                    mark_calls, filled_absent, api_call >>

\* lines 169-170: KeyboardInterrupt, at the sleep or at the prompt
Interrupt ==
    /\ pc \in {"sleep", "confirm"}
    /\ pc' = "interrupted"
    /\ eng' = IF pc = "confirm" THEN [eng EXCEPT !.prompted = TRUE] ELSE eng
    /\ UNCHANGED << settings, active_symbols, sym_idx, current_price,
                    open_orders, existing_orders, open_order_ids, order,
                    ledger, now, history >>

\* the bot is started again: orders.db is as it was left
Restart ==
    /\ pc \in {"crashed", "interrupted", "exited"}
    /\ settings' \in SettingsSet
    /\ active_symbols' = << >>
    /\ pc' = "main"
    /\ sym_idx' = 1
    /\ current_price' = None
    /\ open_orders' = << >>
    /\ existing_orders' = {}
    /\ open_order_ids' = {}
    /\ order' = None
    /\ eng' = EngIdle
    /\ fetch_error' = FALSE
    /\ last_call' = None
    /\ was_open' = {}
    /\ fill_events' = Count
    /\ mark_calls' = Count
    /\ ledger' = Reopened(ledger)
    /\ first_cycle' = TRUE
    /\ UNCHANGED << now, filled_absent, api_call >>

\* every step but the call of create_order
Steps ==
    \/ Main
    \/ GetCurrentPrice
    \/ GetOpenOrders
    \/ SaveOrders
    \/ ListOpen
    \/ NextOrder
    \/ Evaluate
    \/ Confirm
    \/ MarkFilled
    \/ StatusLine
    \/ Sleep
    \/ Interrupt
    \/ Restart

Next == Steps \/ CreateOrder

Spec == Init /\ [][Next]_vars

NextLive == Steps \/ CreateOrderLive

\* the bot with what it waits for arriving: get_klines and create_order
\* return, and the user answers the prompt unless the bot is interrupted.
\* It keeps no history of the placement calls, which nothing stated of it
\* reads.
SpecLive ==
    /\ Init
    /\ [][NextLive]_vars
    /\ WF_vars(Evaluate)
    /\ WF_vars(Confirm)
    /\ WF_vars(CreateOrderLive)

-----------------------------------------------------------------------------
(* The ledger on its own: src/order_storage.py called with any arguments.   *)

\* a report of the same order id with every other field different
Altered(o) ==
    [orderId |-> o.orderId,
     symbol  |-> IF o.symbol = "A" THEN "B" ELSE "A",
     side    |-> IF o.side = SIDE_BUY THEN SIDE_SELL ELSE SIDE_BUY,
     price   |-> "104.00000000",
     origQty |-> "2.00000000"]

\* the order dicts save_or_update_orders is given: the exchange's reports
\* of one symbol's orders, and altered reports of the same ids
LedgerOrders ==
    {ExchangeOrders[id] : id \in IdsOf("A")}
        \cup {Altered(ExchangeOrders[id]) : id \in IdsOf("A")}

\* the order lists save_or_update_orders is given: any, with repeats
LedgerLists == UNION {[1 .. n -> LedgerOrders] : n \in 0 .. MaxListLen}

\* the ids mark_order_filled is given: 0 is the id of no order
LedgerIds == IdsOf("A") \cup {0}

\* orders.db after Base.metadata.create_all: no row
InitLedger ==
    /\ settings = CHOOSE s \in SettingsSet : TRUE
    /\ active_symbols = << >>
    /\ pc = "ledger"
    /\ sym_idx = 1
    /\ current_price = None
    /\ open_orders = << >>
    /\ existing_orders = {}
    /\ open_order_ids = {}
    /\ order = None
    /\ eng = EngIdle
    /\ ledger = {}
    /\ now = 0
    /\ fetch_error = FALSE
    /\ last_call = None
    /\ was_open = {}
    /\ fill_events = Count
    /\ mark_calls = Count
    /\ filled_absent = {}
    /\ first_cycle = FALSE
    /\ api_call = NoCall

process == << settings, active_symbols, pc, sym_idx, locals, fetch_error,
             last_call, was_open, fill_events, mark_calls, filled_absent,
             first_cycle >>

\* save_or_update_orders(order_list)
LedgerSave ==
    \E order_list \in LedgerLists :
       /\ ledger' = save_or_update_orders(ledger, order_list, now)
       /\ api_call' = [NoCall EXCEPT !.op = "save_or_update_orders",
                                     !.order_list = order_list]
       /\ UNCHANGED << now, process >>

\* get_filled_orders(active_symbols): it reads, and changes nothing
LedgerList ==
    \E symbols \in SUBSET Symbols :
       /\ api_call' = [NoCall EXCEPT !.op = "get_filled_orders",
                                     !.symbols = symbols]
       /\ UNCHANGED << ledger, now, process >>

\* mark_order_filled(order_id)
LedgerMark ==
    \E id \in LedgerIds :
       /\ ledger' = mark_order_filled(ledger, id)
       /\ api_call' = [NoCall EXCEPT !.op = "mark_order_filled",
                                     !.order_id = id]
       /\ UNCHANGED << now, process >>

\* time passes between two calls
LedgerTick ==
    /\ now < MaxTime
    /\ now' = now + 1
    /\ UNCHANGED << ledger, api_call, process >>

NextLedger == LedgerSave \/ LedgerList \/ LedgerMark \/ LedgerTick

SpecLedger == InitLedger /\ [][NextLedger]_vars

-----------------------------------------------------------------------------
(* What the statements below read.                                          *)

\* the symbol's reconciliation has gone through its whole fill loop
StepDone == pc = "status"

\* the ids whose fill the running symbol step has to detect: OPEN in the
\* ledger for the symbol when the fetch was made, and not in the fetch
Vanished == was_open \ open_order_ids

\* the Pricing Engine has finished its guards for the order at hand
Decided == order # None /\ eng.outcome \notin {"IDLE", "EVALUATING"}

\* create_order has been called for the order at hand
Called == order # None /\ eng.create_order # None

-----------------------------------------------------------------------------
(* C1: within a bot lifetime no ledger row goes from FILLED back to OPEN,   *)
(* whatever the fetches return (a failed fetch, then the id live again).    *)
C1_StatusNeverReopens ==
    [][\A id \in OrderIds :
          "FILLED" \in StatusesOf(ledger, id)
              => "OPEN" \notin StatusesOf(ledger', id)]_vars

(* C2: an order OPEN in the ledger and absent from the next fetch of its    *)
(* symbol gets exactly one fill event (one Pricing Engine invocation) and   *)
(* one mark in that poll cycle, and is FILLED when the symbol's step is     *)
(* done; no fill event fires for an id that was marked FILLED and has not   *)
(* been reported live since.                                                *)
C2_ExactlyOneFillEvent ==
    /\ \A id \in OrderIds :
          /\ fill_events[id] <= 1
          /\ mark_calls[id] <= fill_events[id]
          /\ fill_events[id] > 0 => id \in Vanished
          /\ fill_events[id] > mark_calls[id] => id \notin filled_absent
    /\ StepDone =>
          \A id \in Vanished :
             /\ fill_events[id] = 1
             /\ mark_calls[id] = 1
             /\ StatusesOf(ledger, id) = {"FILLED"}

\* a step that detected one fill while another id, filled before, stayed
\* absent and got no event
C2_Witness ==
    /\ StepDone
    /\ \E id \in Vanished : fill_events[id] = 1
    /\ \E id \in IdsOf(Symbol) \cap filled_absent :
          /\ id \notin open_order_ids
          /\ fill_events[id] = 0

(* C4: an unknown current price (the gateway failed) does not end the loop: *)
(* the process never dies of it.                                            *)
C4_UnknownPriceKeepsLooping ==
    current_price = None => pc # "crashed"

(* C5: after a failed placement the loop goes on, the order is FILLED once  *)
(* its mark is done, and it stays FILLED: the failed placement's order is   *)
(* FILLED in the ledger from then on.                                       *)
C5_FailedPlacementStaysFilled ==
    (last_call # None /\ last_call[1].outcome = "PLACEMENT_FAILED")
        => \/ pc = "mark" /\ order[1].order_id = last_call[1].order_id
           \/ StatusesOf(ledger, last_call[1].order_id) = {"FILLED"}

-----------------------------------------------------------------------------
(* The figures of the statements on the Pricing Engine, each written as     *)
(* the statement writes it.                                                 *)

\* x percent as a fraction
Percent(x) == Div100(x)

\* price * (1 + profit_percent/100) + price * volume_sell * (fee_percent/100)
StatedSellPrice(p, cfg, s) ==
    Mul(p, Scale + Percent(cfg.profit_percent))
        + Mul(Mul(p, cfg.volume_sell), Percent(s.global.fee_percent))

\* price * (1 - profit_percent/100) - price * volume_buy * (fee_percent/100)
StatedBuyPrice(p, cfg, s) ==
    Mul(p, Scale - Percent(cfg.profit_percent))
        - Mul(Mul(p, cfg.volume_buy), Percent(s.global.fee_percent))

\* profit 1 %, fee 0.1 %
ExampleMargins(cfg, s) ==
    cfg.profit_percent = 1 * Scale /\ s.global.fee_percent = Scale \div 10

(* C6: the counter-order placed for a filled BUY is a SELL of volume_sell   *)
(* at price*(1+profit_percent/100) + price*volume_sell*(fee_percent/100),   *)
(* unrounded; a BUY at 100 with 1 %, 0.1 % and volume_sell 2 gives 101.2.   *)
C6_BuyFillCounterOrder ==
    (Called /\ order[1].side = SIDE_BUY) =>
        /\ eng.create_order[1].side = SIDE_SELL
        /\ eng.create_order[1].quantity = Cfg.volume_sell
        /\ eng.price = StatedSellPrice(order[1].price, Cfg, settings)
        /\ (/\ order[1].price = 100 * Scale
            /\ ExampleMargins(Cfg, settings)
            /\ Cfg.volume_sell = 2 * Scale) => eng.price = 101200

\* the SELL at 101.2 for the BUY at 100 has been placed
C6_Witness ==
    /\ Called
    /\ order[1].side = SIDE_BUY
    /\ order[1].price = 100 * Scale
    /\ ExampleMargins(Cfg, settings)
    /\ eng.create_order[1].side = SIDE_SELL
    /\ eng.create_order[1].quantity = 2 * Scale
    /\ eng.price = 101200
    /\ eng.outcome = "PLACED"

(* C7: the counter-order placed for a filled SELL is a BUY of volume_buy at *)
(* price*(1-profit_percent/100) - price*volume_buy*(fee_percent/100),       *)
(* unrounded; a SELL at 100 with 1 %, 0.1 % and volume_buy 1 gives 98.9.    *)
C7_SellFillCounterOrder ==
    (Called /\ order[1].side = SIDE_SELL) =>
        /\ eng.create_order[1].side = SIDE_BUY
        /\ eng.create_order[1].quantity = Cfg.volume_buy
        /\ eng.price = StatedBuyPrice(order[1].price, Cfg, settings)
        /\ (/\ order[1].price = 100 * Scale
            /\ ExampleMargins(Cfg, settings)
            /\ Cfg.volume_buy = 1 * Scale) => eng.price = 98900

\* the BUY at 98.9 for the SELL at 100 has been placed
C7_Witness ==
    /\ Called
    /\ order[1].side = SIDE_SELL
    /\ order[1].price = 100 * Scale
    /\ ExampleMargins(Cfg, settings)
    /\ eng.create_order[1].side = SIDE_BUY
    /\ eng.create_order[1].quantity = 1 * Scale
    /\ eng.price = 98900
    /\ eng.outcome = "PLACED"

(* C8: for a filled BUY, a computed SELL price below price_min means no     *)
(* prompt and no placement call; no other bound is checked on this side, so *)
(* a price at or above price_min goes on to the prompt or the placement,    *)
(* above price_max too.                                                     *)
C8_SellSideChecksMinOnly ==
    (Decided /\ order[1].side = SIDE_BUY) =>
        LET p == StatedSellPrice(order[1].price, Cfg, settings)
        IN  /\ p < Cfg.price_min =>
                 /\ eng.outcome = "SKIPPED"
                 /\ ~eng.prompted
                 /\ eng.create_order = None
                 /\ pc \notin {"confirm", "create"}
            /\ p >= Cfg.price_min =>
                 /\ eng.outcome # "SKIPPED"
                 /\ ~eng.klines_fetched
                 /\ eng.outcome = "READY" =>
                        pc \in {"confirm", "create", "interrupted"}

\* a SELL below price_min has been skipped
C8_Witness ==
    /\ Decided
    /\ order[1].side = SIDE_BUY
    /\ eng.price < Cfg.price_min
    /\ eng.outcome = "SKIPPED"
    /\ eng.create_order = None

(* C9: for a filled SELL, a computed BUY price above price_max or below     *)
(* price_min means no placement call: every BUY placement call has its      *)
(* unrounded price within [price_min, price_max], and it is the unrounded   *)
(* price that is compared, so a price within the bounds is not skipped for  *)
(* them, whatever it is formatted to.                                       *)
C9_BuySideBounds ==
    (Decided /\ order[1].side = SIDE_SELL) =>
        LET p == StatedBuyPrice(order[1].price, Cfg, settings)
            bounded == {"below price_min", "above price_max"}
        IN  /\ (p > Cfg.price_max \/ p < Cfg.price_min) =>
                 /\ eng.create_order = None
                 /\ eng.outcome = "SKIPPED"
                 /\ pc \notin {"confirm", "create"}
            /\ Called =>
                 /\ eng.create_order[1].side = SIDE_BUY
                 /\ Cfg.price_min <= eng.price
                 /\ eng.price <= Cfg.price_max
            /\ (Cfg.price_min <= p /\ p <= Cfg.price_max) =>
                 eng.reason \notin bounded

\* a BUY has been placed whose price is within the bounds and whose
\* formatted price is above price_max
C9_Witness ==
    /\ Called
    /\ order[1].side = SIDE_SELL
    /\ eng.create_order[1].side = SIDE_BUY
    /\ eng.price <= Cfg.price_max
    /\ ParseFixed(eng.create_order[1].price) > Cfg.price_max

(* C10: with adaptive_limit_percent > 0 and moving_average_period_min > 0 a *)
(* BUY counter-order is placed only if its price is at most                 *)
(* moving_average*(1+adaptive_limit_percent/100): with the average 100 and  *)
(* 2 %, the price 103 is skipped.  With either parameter 0, or for a SELL   *)
(* counter-order, no candles are fetched and the guard skips nothing.       *)
C10_AdaptiveGuard ==
    Decided =>
        LET percent == Get(Cfg, "adaptive_limit_percent", 0)
            minutes == Get(Cfg, "moving_average_period_min", 0)
            enabled == percent > 0 /\ minutes > 0
            buy     == order[1].side = SIDE_SELL
            guard   == {"above adaptive limit", "moving average failed"}
        IN  /\ (Called /\ buy /\ enabled) =>
                 /\ eng.klines_fetched
                 /\ eng.moving_avg # None
                 /\ eng.price <= Mul(eng.moving_avg[1], Scale + Percent(percent))
            /\ (buy /\ enabled /\ eng.moving_avg = Some(100 * Scale)
                    /\ percent = 2 * Scale /\ eng.price = 103 * Scale) =>
                 /\ eng.outcome = "SKIPPED"
                 /\ eng.create_order = None
            /\ (~buy \/ percent = 0 \/ minutes = 0) =>
                 /\ ~eng.klines_fetched
                 /\ eng.moving_avg = None
                 /\ eng.reason \notin guard

\* the BUY at 103 has been skipped for the average 100 and 2 %
C10_Witness ==
    /\ Decided
    /\ order[1].side = SIDE_SELL
    /\ eng.klines_fetched
    /\ eng.moving_avg = Some(100 * Scale)
    /\ Cfg.adaptive_limit_percent = 2 * Scale
    /\ eng.price = 103 * Scale
    /\ eng.outcome = "SKIPPED"
    /\ eng.reason = "above adaptive limit"

-----------------------------------------------------------------------------
(* C3: after save_or_update_orders(order_list) the ledger holds, for every  *)
(* order of the list, exactly one row of its id, and that row is OPEN;      *)
(* whatever the ledger held before and also when the list names an id more  *)
(* than once.  The ledger never holds two rows of one id.                   *)
C3_UpsertOneOpenRowPerId ==
    /\ \A id \in OrderIds : Cardinality(RowsWithId(ledger, id)) <= 1
    /\ api_call.op = "save_or_update_orders" =>
          \A k \in 1 .. Len(api_call.order_list) :
             LET id == api_call.order_list[k].orderId
             IN  /\ Cardinality(RowsWithId(ledger, id)) = 1
                 /\ StatusesOf(ledger, id) = {"OPEN"}

\* a list that names one id twice, with different fields, has been saved
\* into a ledger that holds a FILLED row as well
C3_Witness ==
    /\ api_call.op = "save_or_update_orders"
    /\ Len(api_call.order_list) = 2
    /\ api_call.order_list[1].orderId = api_call.order_list[2].orderId
    /\ api_call.order_list[1] # api_call.order_list[2]
    /\ \E r \in ledger : r.status = "FILLED"
    /\ Cardinality(RowsWithId(ledger, api_call.order_list[1].orderId)) = 1

-----------------------------------------------------------------------------
(* C11: when the adaptive guard is enabled and the moving average cannot be *)
(* had (the gateway fails, or no candle comes back), the Pricing Engine     *)
(* skips: no prompt, no placement call.  The loop goes on to the mark, the  *)
(* order is FILLED once the mark is done, and the process does not die of   *)
(* it (it dies only of an unknown price at the status line).                *)
C11_MovingAverageFailureSkips ==
    (Decided /\ eng.klines_fetched /\ eng.moving_avg = None) =>
        /\ AdaptiveEnabled(Cfg)
        /\ eng.outcome = "SKIPPED"
        /\ eng.reason = "moving average failed"
        /\ ~eng.prompted
        /\ eng.create_order = None
        /\ pc \in {"mark", "fills", "status", "crashed"}
        /\ pc # "mark" => StatusesOf(ledger, order[1].order_id) = {"FILLED"}
        /\ pc = "crashed" => current_price = None

\* the moving average failed for a fill, the fill loop went on to its end
\* and the order is FILLED
C11_Witness ==
    /\ StepDone
    /\ order # None
    /\ eng.klines_fetched
    /\ eng.moving_avg = None
    /\ eng.outcome = "SKIPPED"
    /\ eng.create_order = None
    /\ StatusesOf(ledger, order[1].order_id) = {"FILLED"}

(* C12: with confirm_order true, or absent, every placement call comes      *)
(* after a prompt for the same fill that was answered with y, and a prompt  *)
(* answered otherwise ends the fill with no placement call and no error;    *)
(* with confirm_order false no prompt is made and a fill that passes the    *)
(* guards goes straight to the placement call.                              *)
C12_ConfirmationGating ==
    Decided =>
        /\ ConfirmOf(settings) =>
              /\ Called => eng.prompted /\ eng.user_input = Some("y")
              /\ (eng.user_input # None /\ eng.user_input # Some("y")) =>
                    /\ eng.outcome = "CANCELLED"
                    /\ eng.create_order = None
                    /\ pc \in {"mark", "fills", "status", "crashed"}
                    /\ pc = "crashed" => current_price = None
              /\ eng.outcome = "CANCELLED" =>
                    /\ eng.prompted
                    /\ eng.user_input \notin {None, Some("y")}
              /\ eng.outcome = "READY" =>
                    \/ pc = "confirm" /\ ~eng.prompted
                    \/ pc = "interrupted" /\ eng.user_input = None
                    \/ pc = "create" /\ eng.user_input = Some("y")
        /\ ~ConfirmOf(settings) =>
              /\ ~eng.prompted
              /\ eng.user_input = None
              /\ eng.outcome # "CANCELLED"
              /\ pc # "confirm"
              /\ eng.outcome = "READY" => pc = "create"

\* confirm_order is absent, the prompt was answered with y and the order
\* has been placed
C12_Witness ==
    /\ Called
    /\ "confirm_order" \notin DOMAIN settings.global
    /\ eng.prompted
    /\ eng.user_input = Some("y")
    /\ eng.outcome = "PLACED"

\* the terminal states of a fill event
Terminal == {"SKIPPED", "CANCELLED", "PLACED", "PLACEMENT_FAILED"}

\* the states a fill event can be in, and where each can go next; IDLE is
\* no fill event at hand
Successors(outcome) ==
    CASE outcome = "IDLE"       -> {"EVALUATING"}
      [] outcome = "EVALUATING" -> {"SKIPPED", "READY"}
      [] outcome = "READY"      -> {"CANCELLED", "PLACED", "PLACEMENT_FAILED",
                                    "IDLE"}
      [] OTHER                  -> {"EVALUATING", "IDLE"}

(* C13: every fill event starts in EVALUATING and, the user answering the   *)
(* prompt, ends in exactly one of SKIPPED, CANCELLED, PLACED and            *)
(* PLACEMENT_FAILED, which it then keeps; create_order is called at most    *)
(* once for a fill event, and only in one that ends in PLACED or            *)
(* PLACEMENT_FAILED.                                                        *)
C13_FillEventLifecycle ==
    /\ [](/\ pc = "evaluating" => eng.outcome = "EVALUATING"
          /\ pc \in {"confirm", "create"} => eng.outcome = "READY"
          /\ pc = "mark" => eng.outcome \in Terminal
          /\ eng.create_order # None <=>
                eng.outcome \in {"PLACED", "PLACEMENT_FAILED"})
    /\ [][/\ eng'.outcome # eng.outcome =>
                eng'.outcome \in Successors(eng.outcome)
          /\ eng.create_order # None =>
                \/ eng' = eng
                \/ eng'.outcome \in {"EVALUATING", "IDLE"}
                      /\ eng'.create_order = None]_vars
    /\ (eng.outcome = "EVALUATING") ~>
          (eng.outcome \in Terminal \/ pc = "interrupted")

\* a fill event has ended in PLACEMENT_FAILED, with its one call made
C13_Witness ==
    /\ pc = "mark"
    /\ order[1].side \in {SIDE_BUY, SIDE_SELL}
    /\ eng.outcome = "PLACEMENT_FAILED"
    /\ eng.create_order # None

-----------------------------------------------------------------------------
(* C14: mark_order_filled(order_id) sets the status of the row of that id   *)
(* to FILLED and changes no other row and no other field; for an id the     *)
(* ledger does not hold it changes nothing; and marking the same id again   *)
(* gives the same ledger.                                                   *)
C14_MarkFilledOnlyStatus ==
    [][api_call'.op = "mark_order_filled" =>
          LET id == api_call'.order_id
          IN  /\ \A r \in ledger : r.order_id # id => r \in ledger'
              /\ \A r \in ledger' : r.order_id # id => r \in ledger
              /\ RowsWithId(ledger', id) =
                    {[r EXCEPT !.status = "FILLED"] : r \in RowsWithId(ledger, id)}
              /\ RowsWithId(ledger, id) = {} => ledger' = ledger
              /\ mark_order_filled(ledger', id) = ledger']_vars

\* an id the ledger holds has been marked, next to a row that is OPEN
C14_Witness ==
    /\ api_call.op = "mark_order_filled"
    /\ StatusesOf(ledger, api_call.order_id) = {"FILLED"}
    /\ \E r \in ledger : r.order_id # api_call.order_id /\ r.status = "OPEN"

(* C15: save_or_update_orders(order_list) leaves every row whose id is not  *)
(* in the list as it is: it marks none FILLED and deletes none.  Of a row   *)
(* whose id is in the list it changes the status only: symbol, side, price, *)
(* volume and created_at stay as first recorded, whatever the live order    *)
(* reports.                                                                 *)
C15_UpsertFrame ==
    [][api_call'.op = "save_or_update_orders" =>
          LET ids == ListIds(api_call'.order_list)
          IN  /\ \A r \in ledger :
                    IF r.order_id \in ids
                    THEN [r EXCEPT !.status = "OPEN"] \in ledger'
                    ELSE r \in ledger'
              /\ \A r \in ledger' :
                    \/ r \in ledger
                    \/ r.order_id \in ids /\ r.status = "OPEN"
              /\ \A r \in ledger' :
                    (r.order_id \in ids /\ RowsWithId(ledger, r.order_id) # {})
                        => \E q \in ledger : r = [q EXCEPT !.status = "OPEN"]
       ]_vars

\* a list has been saved whose order reports another symbol, side, price and
\* volume, at a later time, than the row of its id holds, while a FILLED row
\* of an id outside the list is in the ledger
C15_Witness ==
    /\ api_call.op = "save_or_update_orders"
    /\ \E k \in 1 .. Len(api_call.order_list) :
          LET o == api_call.order_list[k]
          IN  \E r \in RowsWithId(ledger, o.orderId) :
                 /\ r.symbol # o.symbol
                 /\ r.side # o.side
                 /\ r.price # float(o.price)
                 /\ r.volume # float(o.origQty)
                 /\ r.created_at < now
                 /\ r.status = "OPEN"
    /\ \E r \in ledger :
          r.order_id \notin ListIds(api_call.order_list) /\ r.status = "FILLED"

-----------------------------------------------------------------------------
(* C16: the ledger survives a restart: the rows are those the stopped bot   *)
(* left.  In the first cycle after the restart, an order that was OPEN and  *)
(* is absent from the fetch of its symbol gets its fill event and is FILLED *)
(* when the symbol's step is done, and a row that was FILLED and stays      *)
(* absent gets no fill event.                                               *)
C16_LedgerSurvivesRestart ==
    /\ [][(pc \in {"crashed", "interrupted", "exited"} /\ pc' = "main")
             => ledger' = ledger]_vars
    /\ [](first_cycle =>
             /\ \A id \in OrderIds :
                   /\ fill_events[id] > 0 => id \in Vanished
                   /\ fill_events[id] > mark_calls[id] =>
                         id \notin filled_absent
             /\ StepDone =>
                   \A id \in Vanished :
                      /\ fill_events[id] = 1
                      /\ StatusesOf(ledger, id) = {"FILLED"})

\* the first cycle after a restart has detected the fill of an order left
\* OPEN, while an order left FILLED stayed absent and got no event
C16_Witness ==
    /\ first_cycle
    /\ StepDone
    /\ \E id \in Vanished :
          fill_events[id] = 1 /\ StatusesOf(ledger, id) = {"FILLED"}
    /\ \E id \in IdsOf(Symbol) \cap filled_absent :
          /\ id \notin open_order_ids
          /\ fill_events[id] = 0
          /\ StatusesOf(ledger, id) = {"FILLED"}

-----------------------------------------------------------------------------
(* C17: when the fetch of the open orders fails, the cycle goes on with an  *)
(* empty list: save_or_update_orders changes nothing, and every row that is *)
(* OPEN for the symbol gets its fill event (one Pricing Engine invocation)  *)
(* and is marked FILLED in that cycle.                                      *)
C17_FailedFetchFillsAllOpen ==
    /\ [](fetch_error =>
             /\ open_orders = << >>
             /\ open_order_ids = {}
             /\ \A id \in OrderIds : fill_events[id] > 0 => id \in was_open
             /\ StepDone =>
                   \A id \in was_open :
                      /\ fill_events[id] = 1
                      /\ mark_calls[id] = 1
                      /\ StatusesOf(ledger, id) = {"FILLED"})
    /\ [][(pc = "save" /\ fetch_error) => ledger' = ledger]_vars

\* after a failed fetch every order of the symbol, both OPEN before, has had
\* its fill event and is FILLED
C17_Witness ==
    /\ fetch_error
    /\ StepDone
    /\ Cardinality(was_open) > 1
    /\ \A id \in was_open :
          fill_events[id] = 1 /\ StatusesOf(ledger, id) = {"FILLED"}

-----------------------------------------------------------------------------
\* the ids of the rows of a symbol that are OPEN
OpenIds(led, symbol) ==
    {r.order_id : r \in {q \in led : q.status = "OPEN" /\ q.symbol = symbol}}

(* C18: when the fill loop of a symbol's step is over, whatever the Pricing *)
(* Engine did for each fill, the rows of the symbol that are OPEN are       *)
(* exactly those of the ids the step's fetch returned; and the step changes *)
(* no row of another symbol, active or not.                                 *)
C18_StepReconcilesSymbol ==
    /\ [](StepDone => OpenIds(ledger, Symbol) = ListIds(open_orders))
    /\ [][ledger' # ledger =>
             /\ pc \in {"save", "mark"}
             /\ \A r \in ledger \cup ledger' :
                   r.symbol # Symbol => (r \in ledger /\ r \in ledger')]_vars

\* a step has ended with one order of the symbol live and OPEN and another
\* one filled, its placement failed, while an inactive symbol has an OPEN
\* row
C18_Witness ==
    /\ StepDone
    /\ ListIds(open_orders) # {}
    /\ OpenIds(ledger, Symbol) = ListIds(open_orders)
    /\ Vanished # {}
    /\ eng.outcome = "PLACEMENT_FAILED"
    /\ \E r \in ledger :
          /\ r.status = "OPEN"
          /\ r.symbol # Symbol
          /\ \A k \in 1 .. Len(active_symbols) : active_symbols[k] # r.symbol

-----------------------------------------------------------------------------
(* C19: over a bot lifetime with confirm_order false, whatever the fetches  *)
(* return or fail with, create_order is called at most once for a ledger    *)
(* order id: no call is made for the id the lifetime's previous call was    *)
(* made for.                                                                *)
C19_OnePlacementPerOrderId ==
    [][(/\ ~ConfirmOf(settings)
        /\ pc = "create"
        /\ eng'.create_order # None
        /\ last_call # None)
          => last_call[1].order_id # order[1].order_id]_vars

=============================================================================
